---- MODULE Spec2Model ----
(***************************************************************************)
(* Room / round state machine of the trivia server (src/server.js).        *)
(* One action per socket or REST handler; the round timer is a pending     *)
(* callback that fires finishQuestion(code).                               *)
(***************************************************************************)
EXTENDS Integers, Sequences, FiniteSets, TLC

\* ------------------------------------------------------------------ bounds
MaxRounds == 2          \* rounds accepted by createQuestion in one behaviour

SocketIds == {"s1", "s2", "s3"}
Names == {"Alice", "Bob"}
NoName == ""            \* a missing / empty name in a payload
Codes == {"AAAAAA"}     \* the values genCode returns
RawCodes == {"AAAAAA", "aaaaaa"}   \* room codes as clients type them
AllCodes == Codes \cup {"BBBBBB"}  \* the codes the registry can hold

\* ------------------------------------------------------- JavaScript values
Num(n) == [t |-> "number", v |-> n]
Str(n) == [t |-> "string", v |-> n]      \* the decimal string of n
Undef == [t |-> "undefined", v |-> 0]
NaN == [t |-> "NaN", v |-> 0]
Arr(s) == [t |-> "array", a |-> s]
Text == [t |-> "text", v |-> 0]          \* a string that is no number

\* NaN where it is held as points, score or duration: these are never
\* negative when they are numbers
NotANumber == -1

\* x || 0 for a score
scoreOr0(x) == IF x = NotANumber THEN 0 ELSE x

\* a + b for a score a and the points b
plus(a, b) == IF a = NotANumber \/ b = NotANumber THEN NotANumber ELSE a + b

\* Number(x)
Number(x) ==
  IF x.t = "number" THEN x
  ELSE IF x.t = "string" THEN Num(x.v)
  ELSE NaN

\* arr.map(Number)
mapNumber(s) == [i \in DOMAIN s |-> Number(s[i])]

\* x is falsy (undefined, 0, NaN)
Falsy(x) == x.t = "undefined" \/ x.t = "NaN" \/ (x.t = "number" /\ x.v = 0)

\* new Set(arr)
SetOf(s) == {s[i] : i \in DOMAIN s}

\* Array.from(new Set(arr)): first occurrences, in order
RECURSIVE ArrayFromSet(_)
ArrayFromSet(s) ==
  IF s = <<>> THEN <<>>
  ELSE LET r == ArrayFromSet(SubSeq(s, 1, Len(s) - 1))
           x == s[Len(s)]
       IN IF x \in SetOf(r) THEN r ELSE Append(r, x)

Max(a, b) == IF a >= b THEN a ELSE b

\* String(code).trim().toUpperCase()
normCode(c) == IF c = "aaaaaa" THEN "AAAAAA" ELSE c

\* ------------------------------------------------------------------ inputs
\* payloads of createQuestion and submitAnswer, for the grading study
CorrectIn == {Undef, Arr(<<Num(1), Str(1)>>), Arr(<<Num(0), Num(1)>>)}
SelectionsIn == {Arr(<<>>), Num(1), Arr(<<Str(1), Num(0)>>)}
PointsIn == {Undef, Num(0), Num(2)}
DurationIn == {Num(0)}
\* the same, cut down for the studies of interleavings
CorrectFew == {Arr(<<Num(1), Str(1)>>)}
SelectionsFew == {Arr(<<>>), Num(1)}
SelectionsOne == {Num(1)}
PointsFew == {Undef}
\* for the study of scores: a negative number, a number, a word
PointsAny == {Num(-1), Num(2), Text}

\* -------------------------------------------------------------------- state
VARIABLES
  rooms,      \* rooms[code]: the room record, or NoRoom
  roomKeys,   \* Object.keys(rooms): the codes in insertion order
  timers,     \* the pending setTimeout callbacks
  connected,  \* io.sockets.sockets: the live connections
  emitted,    \* what the last handler broadcast or sent to other connections
  nextTok,    \* history: number of rounds accepted + 1
  gradedToks, \* history: the rounds for which questionEnded was broadcast
  joinOrder   \* history: per code, the names in order of first join

vars == <<rooms, roomKeys, timers, connected, emitted, nextTok,
          gradedToks, joinOrder>>

Null == "null"
NoRoom == [exists |-> FALSE]
NoQuestion == [active |-> FALSE]
NoTimer == [pending |-> FALSE]

\* a room as the create handlers build it; born is history: the number of
\* the first round the room can hold, which tells it from the rooms that
\* had its code before
newRoom(owner, players, born) ==
  [exists |-> TRUE, owner |-> owner, players |-> players, started |-> FALSE,
   currentQuestion |-> NoQuestion, timer |-> NoTimer, born |-> born]

Player(id, name, score) == [id |-> id, name |-> name, score |-> score]

\* ------------------------------------------------ the players object
\* players is a JS object keyed by socket id: a sequence in insertion order
hasKey(players, pid) == \E i \in DOMAIN players : players[i].id = pid

getKey(players, pid) ==
  players[CHOOSE i \in DOMAIN players : players[i].id = pid]

\* delete players[pid]
RECURSIVE deleteKey(_, _)
deleteKey(players, pid) ==
  IF players = <<>> THEN <<>>
  ELSE IF Head(players).id = pid THEN deleteKey(Tail(players), pid)
  ELSE <<Head(players)>> \o deleteKey(Tail(players), pid)

\* players[pid] = p : an existing key keeps its position, a new one is last
setKey(players, pid, p) ==
  IF hasKey(players, pid)
  THEN [i \in DOMAIN players |-> IF players[i].id = pid THEN p ELSE players[i]]
  ELSE Append(players, p)

\* the collision check looking at the first player only
nameTakenFirstOnly(players, name) == players # <<>> /\ players[1].name = name

\* Object.values(players).some(p => p.name === name)
nameTaken(players, name) == \E i \in DOMAIN players : players[i].name = name

\* Object.keys(players).find(pid => players[pid].name === name)
findByName(players, name) ==
  LET i == CHOOSE j \in DOMAIN players :
             /\ players[j].name = name
             /\ \A k \in 1..(j - 1) : players[k].name # name
  IN players[i].id

\* ------------------------------------------------------------------ events
playerList(code, room) ==
  [ev |-> "playerList", to |-> code, players |-> room.players, owner |-> room.owner]
errorMsg(sid, msg) == [ev |-> "errorMsg", to |-> sid, msg |-> msg]
ackFail(sid, msg) == [ev |-> "ack", to |-> sid, success |-> FALSE, message |-> msg]
ackOk(sid, code) == [ev |-> "ack", to |-> sid, success |-> TRUE, message |-> code]

\* What a handler leaves behind: the registry, the pending timers, the
\* broadcasts (out), the answer to the caller (reply), and the history.
\* Same is the outcome of a handler that returns at once.
Same ==
  [rooms |-> rooms, roomKeys |-> roomKeys, timers |-> timers,
   nextTok |-> nextTok, joinOrder |-> joinOrder,
   graded |-> {}, out |-> <<>>, reply |-> <<>>]

Fail(reply) == [Same EXCEPT !.reply = <<reply>>]

\* Object.keys(rooms) after rooms[code] = r
keysWith(keys, code) ==
  IF \E i \in DOMAIN keys : keys[i] = code THEN keys ELSE Append(keys, code)

\* Object.keys(rooms) after delete rooms[code]
RECURSIVE keysWithout(_, _)
keysWithout(keys, code) ==
  IF keys = <<>> THEN <<>>
  ELSE IF Head(keys) = code THEN keysWithout(Tail(keys), code)
  ELSE <<Head(keys)>> \o keysWithout(Tail(keys), code)

\* the state takes the outcome R of a handler
Apply(R) ==
  \E X \in {R} :
    /\ rooms' = X.rooms
    /\ roomKeys' = X.roomKeys
    /\ timers' = X.timers
    /\ nextTok' = X.nextTok
    /\ joinOrder' = X.joinOrder
    /\ gradedToks' = gradedToks \cup X.graded
    /\ emitted' = X.out

Init ==
  /\ rooms = [c \in AllCodes |-> NoRoom]
  /\ roomKeys = <<>>
  /\ timers = {}
  /\ connected = SocketIds
  /\ emitted = <<>>
  /\ nextTok = 1
  /\ gradedToks = {}
  /\ joinOrder = [c \in AllCodes |-> <<>>]

\* ------------------------------------------------- history of first joins
RECURSIVE filterNames(_, _)
filterNames(jo, keep) ==
  IF jo = <<>> THEN <<>>
  ELSE IF Head(jo) \in keep THEN <<Head(jo)>> \o filterNames(Tail(jo), keep)
  ELSE filterNames(Tail(jo), keep)

RECURSIVE namesOf(_)
namesOf(players) ==
  IF players = <<>> THEN <<>> ELSE <<Head(players).name>> \o namesOf(Tail(players))

\* the names that left are dropped, the names that are new are appended
keepOrder(jo, players) ==
  LET kept == filterNames(jo, SetOf(namesOf(players)))
  IN kept \o filterNames(namesOf(players), SetOf(namesOf(players)) \ SetOf(kept))

\* a connection that joins again before the start renames its own entry
renameIn(jo, old, new) == [i \in DOMAIN jo |-> IF jo[i] = old THEN new ELSE jo[i]]

\* ------------------------------------------------------------------ grading
\* the comparison without the size test: every correct index was selected
isCorrectNoSize(sels, correctSet) ==
  \A i \in correctSet : i \in SetOf(mapNumber(sels))

\* selsSet.size === correctSet.size && [...correctSet].every(i => selsSet.has(i))
isCorrect(sels, correctSet) ==
  LET selsSet == SetOf(mapNumber(sels))
  IN /\ Cardinality(selsSet) = Cardinality(correctSet)
     /\ \A i \in correctSet : i \in selsSet

\* cq.answers[pid] || []  (a stored array is truthy, also when empty)
answersOr(cq, pid) == IF pid \in DOMAIN cq.answers THEN cq.answers[pid] ELSE <<>>

\* one iteration of the loop over room.players
gradePlayer(player, cq) ==
  LET ok == isCorrect(answersOr(cq, player.id), SetOf(mapNumber(cq.correctIndexes)))
  IN [player |-> IF ok
                 THEN [player EXCEPT !.score = plus(scoreOr0(@), cq.points)]
                 ELSE player,
      result |-> [id |-> player.id, name |-> player.name, correct |-> ok,
                  awarded |-> IF ok THEN cq.points ELSE 0]]

\* Array.prototype.sort((a,b) => (b.score||0) - (a.score||0)): stable,
\* descending
insertByScore(sorted, p) ==
  LET k == Cardinality({i \in DOMAIN sorted : scoreOr0(sorted[i].score) >= scoreOr0(p.score)})
  IN SubSeq(sorted, 1, k) \o <<p>> \o SubSeq(sorted, k + 1, Len(sorted))

RECURSIVE sortByScore(_)
sortByScore(ps) ==
  IF ps = <<>> THEN <<>>
  ELSE insertByScore(sortByScore(SubSeq(ps, 1, Len(ps) - 1)), ps[Len(ps)])

\* clearTimeout(timer) on the pending timers ts; clearing null does nothing
clearTimeout(ts, timer) == ts \ {timer}

\* finishQuestion forgets to clear the round
idleKeepsRound(room) == [room EXCEPT !.timer = NoTimer]

\* finishQuestion forgets to reset the timer handle
idleKeepsTimer(room) == [room EXCEPT !.currentQuestion = NoQuestion]

\* room.timer = null; room.currentQuestion = null
idle(room) == [room EXCEPT !.currentQuestion = NoQuestion, !.timer = NoTimer]

\* finishQuestion that broadcasts the leaderboard before the results
finishQuestionBoardFirst(rs, ts, code) ==
  IF ~rs[code].exists \/ ~rs[code].currentQuestion.active
  THEN [rooms |-> rs, timers |-> ts, out |-> <<>>, graded |-> {}]
  ELSE LET room == rs[code]
           cq == room.currentQuestion
           g == [i \in DOMAIN room.players |-> gradePlayer(room.players[i], cq)]
           ps == [i \in DOMAIN room.players |-> g[i].player]
           r == idle([room EXCEPT !.players = ps])
       IN [rooms |-> [rs EXCEPT ![code] = r],
           timers |-> clearTimeout(ts, room.timer),
           out |-> << [ev |-> "leaderboard", to |-> code, board |-> sortByScore(ps)],
                      [ev |-> "questionEnded", to |-> code, tok |-> cq.tok,
                       results |-> [i \in DOMAIN g |-> g[i].result],
                       correctIndexes |-> ArrayFromSet(mapNumber(cq.correctIndexes))],
                      playerList(code, r) >>,
           graded |-> {cq.tok}]

\* function finishQuestion(code), run on the rooms rs and the pending timers
\* ts: the rooms and timers it leaves, its broadcasts, the round it graded
finishQuestion(rs, ts, code) ==
  IF ~rs[code].exists \/ ~rs[code].currentQuestion.active
  THEN [rooms |-> rs, timers |-> ts, out |-> <<>>, graded |-> {}]
  ELSE LET room == rs[code]
           cq == room.currentQuestion
           g == [i \in DOMAIN room.players |-> gradePlayer(room.players[i], cq)]
           ps == [i \in DOMAIN room.players |-> g[i].player]
           r == idle([room EXCEPT !.players = ps])
       IN [rooms |-> [rs EXCEPT ![code] = r],
           timers |-> clearTimeout(ts, room.timer),
           out |-> << [ev |-> "questionEnded", to |-> code, tok |-> cq.tok,
                       results |-> [i \in DOMAIN g |-> g[i].result],
                       correctIndexes |-> ArrayFromSet(mapNumber(cq.correctIndexes))],
                      [ev |-> "leaderboard", to |-> code, board |-> sortByScore(ps)],
                      playerList(code, r) >>,
           graded |-> {cq.tok}]

\* ------------------------------------------------------------- room creation
\* POST /api/create; code is what genCode() returned
apiCreate(name, code) ==
  IF name = NoName
  THEN Fail([ev |-> "http", status |-> 400])
  ELSE [Same EXCEPT !.rooms[code] = newRoom(Null, <<>>, nextTok),
                    !.roomKeys = keysWith(@, code),
                    !.joinOrder[code] = <<>>,
                    !.reply = <<[ev |-> "http", status |-> 200]>>]

\* socket.on("createRoomSocket"); code is what genCode() returned
createRoomSocket(sid, name, code) ==
  IF name = NoName
  THEN Fail(ackFail(sid, "Missing name"))
  ELSE LET r == newRoom(sid, <<Player(sid, name, 0)>>, nextTok) IN
       [Same EXCEPT !.rooms[code] = r,
                    !.roomKeys = keysWith(@, code),
                    !.joinOrder[code] = <<name>>,
                    !.out = <<playerList(code, r)>>,
                    !.reply = <<ackOk(sid, code)>>]

\* ---------------------------------------------------------------- membership
\* socket.on("joinRoom")
joinRoom(sid, rawCode, name, isOwner) ==
  LET code == normCode(rawCode)
      room == rooms[code]
  IN
  IF name = NoName THEN Fail(ackFail(sid, "Missing code or name"))
  ELSE IF code \notin AllCodes \/ ~room.exists THEN Fail(ackFail(sid, "Room not found"))
  ELSE IF room.started
  THEN IF ~nameTaken(room.players, name)
       THEN \* a new name: refused, or (with the owner claim) dropped unanswered
            IF isOwner THEN Same ELSE Fail(ackFail(sid, "Game already started"))
       ELSE LET existingPid == findByName(room.players, name)
                old == getKey(room.players, existingPid)
                ps == setKey(deleteKey(room.players, existingPid), sid,
                             Player(sid, old.name, scoreOr0(old.score)))
                r == [room EXCEPT !.players = ps,
                                  !.owner = IF isOwner THEN sid ELSE @]
            IN [Same EXCEPT !.rooms[code] = r,
                            !.joinOrder[code] = keepOrder(@, ps),
                            !.out = <<playerList(code, r)>>,
                            !.reply = <<ackOk(sid, code)>>]
  ELSE IF nameTaken(room.players, name)
       THEN Fail(ackFail(sid, "Name already taken in this room"))
       ELSE LET ps == setKey(room.players, sid, Player(sid, name, 0))
                r == [room EXCEPT !.players = ps,
                                  !.owner = IF isOwner THEN sid ELSE @]
                jo == IF hasKey(room.players, sid)
                      THEN renameIn(joinOrder[code],
                                    getKey(room.players, sid).name, name)
                      ELSE joinOrder[code]
            IN [Same EXCEPT !.rooms[code] = r,
                            !.joinOrder[code] = keepOrder(jo, ps),
                            !.out = <<playerList(code, r)>>,
                            !.reply = <<ackOk(sid, code)>>]

\* socket.on("kickPlayer"); the code is looked up as sent
kickPlayer(sid, code, targetId) ==
  IF code \notin AllCodes \/ ~rooms[code].exists
  THEN Fail(errorMsg(sid, "Room not found"))
  ELSE LET room == rooms[code] IN
       IF room.owner # sid THEN Fail(errorMsg(sid, "Only owner can kick"))
       ELSE IF hasKey(room.players, targetId)
       THEN LET r == [room EXCEPT !.players = deleteKey(@, targetId)] IN
            [Same EXCEPT !.rooms[code] = r,
                         !.joinOrder[code] = keepOrder(@, r.players),
                         !.out = <<[ev |-> "kicked", to |-> targetId],
                                   playerList(code, r)>>]
       ELSE Same

\* startGame without the owner check
startGameAnyone(sid, code) ==
  IF code \notin AllCodes \/ ~rooms[code].exists
  THEN Fail(errorMsg(sid, "Room not found"))
  ELSE LET r == [rooms[code] EXCEPT !.started = TRUE] IN
       [Same EXCEPT !.rooms[code] = r,
                    !.out = <<[ev |-> "goToGamePage", to |-> code],
                              playerList(code, r)>>]

\* socket.on("startGame")
startGame(sid, code) ==
  IF code \notin AllCodes \/ ~rooms[code].exists
  THEN Fail(errorMsg(sid, "Room not found"))
  ELSE LET room == rooms[code] IN
       IF room.owner # sid THEN Fail(errorMsg(sid, "Only owner can start"))
       ELSE LET r == [room EXCEPT !.started = TRUE] IN
            [Same EXCEPT !.rooms[code] = r,
                         !.out = <<[ev |-> "goToGamePage", to |-> code],
                                   playerList(code, r)>>]

\* ------------------------------------------------------------------- rounds
\* x || d for a numeric payload field
orDefault(x, d) == IF Falsy(x) THEN d ELSE x.v

\* the payload field is a number or the decimal string of one
isNumeric(x) == x.t = "number" \/ x.t = "string"

\* Math.max(lo, Math.floor(x || d)): NaN for a value that is not falsy and
\* is no number
atLeast(lo, x, d) ==
  IF Falsy(x) \/ isNumeric(x) THEN Max(lo, orDefault(x, d)) ELSE NotANumber

\* createQuestion forgets the check for a round in progress
questionActiveNever(room) == FALSE

\* if (room.currentQuestion) in createQuestion
questionActive(room) == room.currentQuestion.active

\* socket.on("createQuestion"); question and options are stored and broadcast
\* untouched and are left out of the state
createQuestion(sid, code, correctIndexes, duration, points) ==
  IF code \notin AllCodes \/ ~rooms[code].exists
  THEN Fail(errorMsg(sid, "Room not found"))
  ELSE LET room == rooms[code] IN
       IF room.owner # sid
       THEN Fail(errorMsg(sid, "Only owner can create questions"))
       ELSE IF questionActive(room)
       THEN Fail(errorMsg(sid, "Question already active"))
       ELSE LET dur == atLeast(1, duration, 10)
                pts == atLeast(0, points, 1)
                cq == [active |-> TRUE,
                       correctIndexes |-> IF correctIndexes.t = "array"
                                          THEN mapNumber(correctIndexes.a)
                                          ELSE <<>>,
                       duration |-> dur, points |-> pts,
                       answers |-> <<>>,
                       \* history: the number of the round, and the display
                       \* names of the players whose answer was stored
                       tok |-> nextTok, names |-> {}]
                t == [pending |-> TRUE, code |-> code, tok |-> nextTok]
            IN [Same EXCEPT !.rooms[code] = [room EXCEPT !.currentQuestion = cq,
                                                         !.timer = t],
                            !.timers = clearTimeout(@, room.timer) \cup {t},
                            !.nextTok = @ + 1,
                            !.out = <<[ev |-> "questionStarted", to |-> code,
                                       duration |-> dur, tok |-> nextTok]>>]

\* the check taken as "has a non-empty answer"
alreadyAnsweredNonEmpty(cq, sid) ==
  sid \in DOMAIN cq.answers /\ cq.answers[sid] # <<>>

\* room.currentQuestion.answers[socket.id] is truthy: a stored array always is
alreadyAnswered(cq, sid) == sid \in DOMAIN cq.answers

\* socket.on("submitAnswer")
submitAnswer(sid, code, selections) ==
  IF code \notin AllCodes \/ ~rooms[code].exists \/ ~rooms[code].currentQuestion.active
  THEN Fail(errorMsg(sid, "No active question"))
  ELSE LET room == rooms[code]
           cq == room.currentQuestion
       IN IF alreadyAnswered(cq, sid)
          THEN Fail(errorMsg(sid, "Already answered"))
          ELSE LET v == IF selections.t = "array"
                        THEN mapNumber(selections.a)
                        ELSE <<Number(selections)>>
                   ans == [x \in DOMAIN cq.answers \cup {sid} |->
                             IF x = sid THEN v ELSE cq.answers[x]]
                   who == IF hasKey(room.players, sid)
                          THEN {getKey(room.players, sid).name} ELSE {}
               IN [Same EXCEPT
                     !.rooms[code].currentQuestion.answers = ans,
                     !.rooms[code].currentQuestion.names = @ \cup who,
                     !.out = IF room.owner # Null /\ room.owner \in connected
                             THEN <<[ev |-> "playerAnswered", to |-> room.owner,
                                     id |-> sid,
                                     name |-> IF hasKey(room.players, sid)
                                              THEN getKey(room.players, sid).name
                                              ELSE "undefined"]>>
                             ELSE <<>>]

\* socket.on("endQuestionNow")
endQuestionNow(sid, code) ==
  IF code \notin AllCodes \/ ~rooms[code].exists \/ rooms[code].owner # sid
  THEN Fail(errorMsg(sid, "Only owner can end"))
  ELSE LET f == finishQuestion(rooms, timers, code) IN
       [Same EXCEPT !.rooms = f.rooms, !.timers = f.timers,
                    !.out = f.out, !.graded = f.graded]

\* a callback that forgets to call finishQuestion
timerFiresIdly(t) == [Same EXCEPT !.timers = @ \ {t}]

\* the setTimeout callback of createQuestion, () => finishQuestion(code),
\* when the pending timer t fires
timerFires(t) ==
  LET f == finishQuestion(rooms, timers \ {t}, t.code) IN
  [Same EXCEPT !.rooms = f.rooms, !.timers = f.timers,
               !.out = f.out, !.graded = f.graded]

\* socket.on("disconnect"): the first room, in key order, that holds the
\* connection
disconnect(sid) ==
  LET hit == {i \in DOMAIN roomKeys : hasKey(rooms[roomKeys[i]].players, sid)} IN
  IF hit = {} THEN Same
  ELSE LET code == roomKeys[CHOOSE j \in hit : \A k \in hit : j <= k]
           room == rooms[code]
           r == [room EXCEPT !.players = deleteKey(@, sid)]
       IN IF room.owner = sid
          THEN [Same EXCEPT !.rooms[code] = NoRoom,
                            !.roomKeys = keysWithout(@, code),
                            !.timers = clearTimeout(@, room.timer),
                            !.joinOrder[code] = <<>>,
                            !.out = <<[ev |-> "roomClosed", to |-> code]>>]
          ELSE [Same EXCEPT !.rooms[code] = r,
                            !.joinOrder[code] = keepOrder(@, r.players),
                            !.out = <<playerList(code, r)>>]

\* ------------------------------------------------------------------ actions
ApiCreate(name, code) ==
  /\ Apply(apiCreate(name, code))
  /\ UNCHANGED connected

CreateRoomSocket(sid, name, code) ==
  /\ sid \in connected
  /\ Apply(createRoomSocket(sid, name, code))
  /\ UNCHANGED connected

JoinRoom(sid, rawCode, name, isOwner) ==
  /\ sid \in connected
  /\ Apply(joinRoom(sid, rawCode, name, isOwner))
  /\ UNCHANGED connected

KickPlayer(sid, code, targetId) ==
  /\ sid \in connected
  /\ Apply(kickPlayer(sid, code, targetId))
  /\ UNCHANGED connected

StartGame(sid, code) ==
  /\ sid \in connected
  /\ Apply(startGame(sid, code))
  /\ UNCHANGED connected

CreateQuestion(sid, code, correctIndexes, duration, points) ==
  /\ sid \in connected
  /\ nextTok <= MaxRounds
  /\ Apply(createQuestion(sid, code, correctIndexes, duration, points))
  /\ UNCHANGED connected

SubmitAnswer(sid, code, selections) ==
  /\ sid \in connected
  /\ Apply(submitAnswer(sid, code, selections))
  /\ UNCHANGED connected

EndQuestionNow(sid, code) ==
  /\ sid \in connected
  /\ Apply(endQuestionNow(sid, code))
  /\ UNCHANGED connected

TimerFires(t) ==
  /\ t \in timers
  /\ Apply(timerFires(t))
  /\ UNCHANGED connected

Disconnect(sid) ==
  /\ sid \in connected
  /\ Apply(disconnect(sid))
  /\ connected' = connected \ {sid}

\* every handler, every connection; one question, one answer
Next ==
  \/ \E name \in Names \cup {NoName}, code \in Codes : ApiCreate(name, code)
  \/ \E sid \in SocketIds, name \in Names \cup {NoName}, code \in Codes :
        CreateRoomSocket(sid, name, code)
  \/ \E sid \in SocketIds, c \in Codes, name \in Names \cup {NoName},
        isOwner \in BOOLEAN : JoinRoom(sid, c, name, isOwner)
  \/ \E sid \in SocketIds, c \in Codes, t \in SocketIds : KickPlayer(sid, c, t)
  \/ \E sid \in SocketIds, c \in RawCodes : StartGame(sid, c)
  \/ \E sid \in SocketIds, c \in Codes, ci \in CorrectFew, d \in DurationIn,
        p \in PointsFew : CreateQuestion(sid, c, ci, d, p)
  \/ \E sid \in {"s1", "s2"}, c \in Codes, sel \in SelectionsOne :
        SubmitAnswer(sid, c, sel)
  \/ \E sid \in SocketIds, c \in Codes : EndQuestionNow(sid, c)
  \/ \E t \in timers : TimerFires(t)
  \/ \E sid \in SocketIds : Disconnect(sid)

Spec == Init /\ [][Next]_vars

\* the round engine under reconnection: Alice opens the room on s1, the
\* others join, rejoin and answer
NextRound ==
  \/ \E code \in Codes : CreateRoomSocket("s1", "Alice", code)
  \/ \E sid \in {"s2", "s3"}, c \in RawCodes, name \in Names,
        isOwner \in BOOLEAN : JoinRoom(sid, c, name, isOwner)
  \/ \E c \in Codes : StartGame("s1", c)
  \/ \E sid \in SocketIds, c \in Codes, ci \in CorrectFew, d \in DurationIn,
        p \in PointsFew : CreateQuestion(sid, c, ci, d, p)
  \/ \E sid \in {"s2", "s3"}, c \in Codes, sel \in SelectionsFew :
        SubmitAnswer(sid, c, sel)
  \/ \E sid \in SocketIds, c \in Codes : EndQuestionNow(sid, c)
  \/ \E t \in timers : TimerFires(t)
  \/ \E sid \in SocketIds : Disconnect(sid)

SpecRound == Init /\ [][NextRound]_vars

\* grading: Alice on s1, Bob on s2, s3 takes over a name after the start;
\* every payload
NextGrade ==
  \/ \E code \in Codes : CreateRoomSocket("s1", "Alice", code)
  \/ \E c \in Codes : JoinRoom("s2", c, "Bob", FALSE)
  \/ \E c \in Codes : StartGame("s1", c)
  \/ \E c \in Codes : JoinRoom("s3", c, "Bob", FALSE)
  \/ \E c \in Codes, ci \in CorrectIn, d \in DurationIn, p \in PointsIn :
        CreateQuestion("s1", c, ci, d, p)
  \/ \E sid \in {"s2", "s3"}, c \in Codes, sel \in SelectionsIn :
        SubmitAnswer(sid, c, sel)
  \/ \E c \in Codes : EndQuestionNow("s1", c)
  \/ \E t \in timers : TimerFires(t)

SpecGrade == Init /\ [][NextGrade]_vars

\* scores: Alice on s1, Bob on s2 answers right, s3 takes over Bob's name
\* after the start; every kind of points
NextScore ==
  \/ \E code \in Codes : CreateRoomSocket("s1", "Alice", code)
  \/ \E c \in Codes : JoinRoom("s2", c, "Bob", FALSE)
  \/ \E c \in Codes : StartGame("s1", c)
  \/ \E c \in Codes, isOwner \in BOOLEAN : JoinRoom("s3", c, "Bob", isOwner)
  \/ \E c \in Codes, ci \in CorrectFew, d \in DurationIn, p \in PointsAny :
        CreateQuestion("s1", c, ci, d, p)
  \/ \E sid \in {"s2", "s3"}, c \in Codes, sel \in SelectionsOne :
        SubmitAnswer(sid, c, sel)
  \/ \E sid \in {"s1", "s3"}, c \in Codes : EndQuestionNow(sid, c)
  \/ \E t \in timers : TimerFires(t)
  \/ \E sid \in {"s2", "s3"} : Disconnect(sid)

SpecScore == Init /\ [][NextScore]_vars

\* two rooms: the code generator returns either code, two connections
\* create, join and leave
NextTwo ==
  \/ \E name \in Names, code \in AllCodes : ApiCreate(name, code)
  \/ \E sid \in {"s1", "s2"}, name \in Names, code \in AllCodes :
        CreateRoomSocket(sid, name, code)
  \/ \E sid \in {"s1", "s2"}, c \in AllCodes, name \in Names,
        isOwner \in BOOLEAN : JoinRoom(sid, c, name, isOwner)
  \/ \E sid \in {"s1", "s2"}, c \in AllCodes : StartGame(sid, c)
  \/ \E sid \in {"s1", "s2"} : Disconnect(sid)

SpecTwo == Init /\ [][NextTwo]_vars

\* the life of a round: Alice owns the room, Bob answers, anyone may leave;
\* a timer that is pending fires in the end (setTimeout runs its callback
\* unless it is cleared)
NextLive ==
  \/ \E code \in Codes : CreateRoomSocket("s1", "Alice", code)
  \/ \E c \in Codes : JoinRoom("s2", c, "Bob", FALSE)
  \/ \E c \in Codes, ci \in CorrectFew, d \in DurationIn, p \in PointsFew :
        CreateQuestion("s1", c, ci, d, p)
  \/ \E c \in Codes, sel \in SelectionsOne : SubmitAnswer("s2", c, sel)
  \/ \E c \in Codes : EndQuestionNow("s1", c)
  \/ \E t \in timers : TimerFires(t)
  \/ \E sid \in {"s1", "s2"} : Disconnect(sid)

SpecLive ==
  Init /\ [][NextLive]_vars /\ WF_vars(\E t \in timers : TimerFires(t))

\* =================================================== the grace-window server
\* src/unnamed/part_001: rooms without rounds; the disconnect of the owner
\* starts a 30 s timeout that closes the room.  The registry, the pending
\* callbacks, the connections and the broadcasts are the variables above.

\* a room as createRoom builds it; ownerTimeout is room._ownerTimeout
graceRoom(owner, players) ==
  [exists |-> TRUE, owner |-> owner, players |-> players, started |-> FALSE,
   ownerTimeout |-> NoTimer]

\* socket.on("createRoom"); code is what generateRoomCode() returned
createRoom(sid, name, code) ==
  [Same EXCEPT !.rooms[code] = graceRoom(sid, <<Player(sid, name, 0)>>),
               !.roomKeys = keysWith(@, code),
               !.reply = <<ackOk(sid, code)>>]

\* socket.on("joinRoom") of part_001
joinRoomGrace(sid, rawCode, name) ==
  LET code == normCode(rawCode)
      room == rooms[code]
  IN
  IF code \notin AllCodes \/ ~room.exists THEN Fail(ackFail(sid, "Room not found"))
  ELSE IF room.started THEN Fail(ackFail(sid, "Game already started"))
  ELSE LET r == [room EXCEPT !.players = setKey(@, sid, Player(sid, name, 0))] IN
       [Same EXCEPT !.rooms[code] = r,
                    !.out = <<playerList(code, r)>>,
                    !.reply = <<ackOk(sid, code)>>]

\* socket.on("rejoinRoom")
rejoinRoom(sid, rawCode, name) ==
  LET code == normCode(rawCode)
      room == rooms[code]
  IN
  IF code \notin AllCodes \/ ~room.exists THEN Fail(ackFail(sid, "Room not found"))
  ELSE IF ~nameTaken(room.players, name)
  THEN Fail(ackFail(sid, "Player not in this room"))
  ELSE LET existing == getKey(room.players, findByName(room.players, name))
           r == [room EXCEPT
                   !.players = setKey(deleteKey(@, existing.id), sid,
                                      Player(sid, name, existing.score)),
                   !.ownerTimeout = NoTimer]
       IN [Same EXCEPT !.rooms[code] = r,
                       !.timers = clearTimeout(@, room.ownerTimeout),
                       !.out = <<playerList(code, r)>>,
                       !.reply = <<ackOk(sid, code)>>]

\* socket.on("startGame") of part_001: anything but the owner's call is
\* dropped without answer
startGameGrace(sid, rawCode) ==
  LET code == normCode(rawCode) IN
  IF code \in Codes /\ rooms[code].exists /\ rooms[code].owner = sid
  THEN [Same EXCEPT !.rooms[code].started = TRUE,
                    !.out = <<[ev |-> "gameStarted", to |-> code]>>]
  ELSE Same

\* socket.on("disconnect") of part_001: the first room, in key order, that
\* holds the connection; the callback keeps the code and the room object,
\* whose owner is never reassigned
disconnectGrace(sid) ==
  LET hit == {i \in DOMAIN roomKeys : hasKey(rooms[roomKeys[i]].players, sid)} IN
  IF hit = {} THEN Same
  ELSE LET code == roomKeys[CHOOSE j \in hit : \A k \in hit : j <= k]
           room == rooms[code]
           \* name is history: the display name the owner had
           t == [pending |-> TRUE, code |-> code, owner |-> room.owner,
                 name |-> getKey(room.players, sid).name]
           r == [room EXCEPT !.players = deleteKey(@, sid),
                             !.ownerTimeout = IF room.owner = sid THEN t ELSE @]
       IN [Same EXCEPT !.rooms[code] = r,
                       !.timers = IF room.owner = sid THEN @ \cup {t} ELSE @,
                       !.out = <<playerList(code, r)>>]

\* the setTimeout callback of disconnect, when the pending timeout t fires
ownerTimeout(t) ==
  IF t.owner = Null \/ t.owner \notin connected
  THEN [Same EXCEPT !.rooms[t.code] = NoRoom,
                    !.roomKeys = keysWithout(@, t.code),
                    !.timers = @ \ {t},
                    !.out = <<[ev |-> "roomClosed", to |-> t.code]>>]
  ELSE [Same EXCEPT !.timers = @ \ {t}]

CreateRoom(sid, name, code) ==
  /\ sid \in connected
  /\ Apply(createRoom(sid, name, code))
  /\ UNCHANGED connected

JoinRoomGrace(sid, rawCode, name) ==
  /\ sid \in connected
  /\ Apply(joinRoomGrace(sid, rawCode, name))
  /\ UNCHANGED connected

RejoinRoom(sid, rawCode, name) ==
  /\ sid \in connected
  /\ Apply(rejoinRoom(sid, rawCode, name))
  /\ UNCHANGED connected

StartGameGrace(sid, rawCode) ==
  /\ sid \in connected
  /\ Apply(startGameGrace(sid, rawCode))
  /\ UNCHANGED connected

DisconnectGrace(sid) ==
  /\ sid \in connected
  /\ Apply(disconnectGrace(sid))
  /\ connected' = connected \ {sid}

OwnerTimeout(t) ==
  /\ t \in timers
  /\ Apply(ownerTimeout(t))
  /\ UNCHANGED connected

NextWindow ==
  \/ \E sid \in SocketIds, name \in Names, code \in Codes :
        CreateRoom(sid, name, code)
  \/ \E sid \in SocketIds, c \in RawCodes, name \in Names :
        JoinRoomGrace(sid, c, name)
  \/ \E sid \in SocketIds, c \in RawCodes, name \in Names :
        RejoinRoom(sid, c, name)
  \/ \E sid \in SocketIds, c \in RawCodes : StartGameGrace(sid, c)
  \/ \E sid \in SocketIds : DisconnectGrace(sid)
  \/ \E t \in timers : OwnerTimeout(t)

SpecWindow == Init /\ [][NextWindow]_vars

\* ================================================================== claims
Active(c) == rooms[c].exists /\ rooms[c].currentQuestion.active

\* the questionEnded broadcasts of a list of events
Ended(em) == {i \in DOMAIN em : em[i].ev = "questionEnded"}

\* the score a room keeps under a display name, or -1 for a name it lacks
scoreOf(room, name) ==
  IF nameTaken(room.players, name)
  THEN getKey(room.players, findByName(room.players, name)).score
  ELSE -1

\* ------------------------------------------------------------------- C1
C1_Step ==
  \A i \in Ended(emitted') :
    LET e == emitted'[i]
        c == e.to
    IN /\ e.tok \notin gradedToks
       /\ Ended(emitted') = {i}
       /\ Active(c) /\ rooms[c].currentQuestion.tok = e.tok
       /\ Len(rooms'[c].players) = Len(rooms[c].players)
       /\ \A k \in DOMAIN rooms[c].players :
            /\ rooms'[c].players[k].id = rooms[c].players[k].id
            /\ rooms'[c].players[k].score - rooms[c].players[k].score
                 \in {0, rooms[c].currentQuestion.points}

C1_Quiet ==
  Ended(emitted') = {} =>
    \A c \in Codes, n \in Names :
      (rooms[c].exists /\ rooms'[c].exists /\ rooms'[c].born = rooms[c].born)
        => scoreOf(rooms'[c], n) <= Max(0, scoreOf(rooms[c], n))

C1_Idle ==
  \A c \in Codes, sid \in SocketIds :
    (rooms[c].exists /\ rooms[c].owner = sid /\ ~Active(c))
      => endQuestionNow(sid, c) = Same

\* C1: every round is graded at most once.  A questionEnded broadcast is for
\* the round that is active, which was never broadcast as ended before, and
\* it is the only one of its step; in that step every player's score grows
\* by 0 or by the round's points, and in every other step no score grows; so
\* the timer and the owner's endQuestionNow, in either order, grade a round
\* once.  endQuestionNow by the owner of a room with no active round changes
\* nothing and broadcasts nothing.
C1_GradedOnce == [][C1_Step /\ C1_Quiet]_vars /\ []C1_Idle

\* a round was graded, its room is idle and still there, its owner is
\* connected, and the handler that just ran (a second end) broadcast nothing
C1_Witness ==
  \E c \in Codes :
    /\ rooms[c].exists /\ ~Active(c)
    /\ rooms[c].owner \in connected
    /\ \E k \in gradedToks : k >= rooms[c].born
    /\ \E i \in DOMAIN rooms[c].players : rooms[c].players[i].score > 0
    /\ emitted = <<>>

\* ------------------------------------------------------------------- C2
\* the same room is under the code c before and after the step
SameRoom(c) ==
  rooms[c].exists /\ rooms'[c].exists /\ rooms'[c].born = rooms[c].born

C2_Refused ==
  \A c \in Codes, sid \in SocketIds, ci \in CorrectIn, d \in DurationIn,
     p \in PointsIn :
    Active(c) =>
      LET R == createQuestion(sid, c, ci, d, p) IN
      /\ R.rooms = rooms /\ R.timers = timers /\ R.nextTok = nextTok
      /\ R.out = <<>>
      /\ Len(R.reply) = 1 /\ R.reply[1].ev = "errorMsg" /\ R.reply[1].to = sid
      /\ rooms[c].owner = sid => R.reply[1].msg = "Question already active"

C2_Kept ==
  \A c \in Codes :
    (Active(c) /\ SameRoom(c) /\ rooms'[c].currentQuestion.active) =>
      /\ [rooms'[c].currentQuestion EXCEPT !.answers = <<>>, !.names = {}]
           = [rooms[c].currentQuestion EXCEPT !.answers = <<>>, !.names = {}]
      /\ DOMAIN rooms[c].currentQuestion.answers
           \subseteq DOMAIN rooms'[c].currentQuestion.answers
      /\ rooms'[c].timer = rooms[c].timer

\* C2: a room holds at most one round.  While a round is active every
\* createQuestion for the room is answered with an error (from the owner:
\* "Question already active") and leaves the rooms, the round, its
\* submissions and the timers as they are; and no step of any handler
\* replaces the active round of a room by another round.
C2_OneRound == [][C2_Kept]_vars /\ []C2_Refused

\* a round with a stored answer is active, its owner is connected, and the
\* handler that just ran (a refused createQuestion) broadcast nothing
C2_Witness ==
  \E c \in Codes :
    /\ Active(c)
    /\ rooms[c].owner \in connected
    /\ rooms[c].currentQuestion.answers # <<>>
    /\ rooms[c].timer \in timers
    /\ emitted = <<>>

\* ------------------------------------------------------------------- C3
C3_Rejected ==
  \A c \in Codes, sid \in SocketIds, sel \in SelectionsIn :
    (Active(c) /\ sid \in DOMAIN rooms[c].currentQuestion.answers)
      => submitAnswer(sid, c, sel) = Fail(errorMsg(sid, "Already answered"))

C3_Stored ==
  \A c \in Codes, sid \in SocketIds, sel \in SelectionsIn :
    (Active(c) /\ sid \notin DOMAIN rooms[c].currentQuestion.answers) =>
      LET a == rooms[c].currentQuestion.answers
          b == submitAnswer(sid, c, sel).rooms[c].currentQuestion.answers
      IN /\ DOMAIN b = DOMAIN a \cup {sid}
         /\ \A x \in DOMAIN a : b[x] = a[x]
         /\ SetOf(b[sid]) = IF sel.t = "array"
                            THEN {Number(sel.a[i]) : i \in DOMAIN sel.a}
                            ELSE {Number(sel)}

C3_Kept ==
  \A c \in Codes, sid \in SocketIds :
    (/\ Active(c) /\ sid \in DOMAIN rooms[c].currentQuestion.answers
     /\ SameRoom(c) /\ rooms'[c].currentQuestion.active
     /\ rooms'[c].currentQuestion.tok = rooms[c].currentQuestion.tok)
      => /\ sid \in DOMAIN rooms'[c].currentQuestion.answers
         /\ rooms'[c].currentQuestion.answers[sid]
              = rooms[c].currentQuestion.answers[sid]

\* C3: within a round the first submitAnswer of a connection is stored, and
\* once a connection has a stored submission, the empty list included, every
\* submitAnswer from it is answered "Already answered" and changes nothing;
\* the stored submission stays as it is for as long as the round is active.
C3_FirstAnswerOnly == [][C3_Kept]_vars /\ [](C3_Rejected /\ C3_Stored)

\* a connection has stored the empty list, and its next submitAnswer was
\* refused: the handler that just ran broadcast nothing
C3_Witness ==
  \E c \in Codes, sid \in connected :
    /\ Active(c)
    /\ rooms[c].owner \in connected
    /\ sid \in DOMAIN rooms[c].currentQuestion.answers
    /\ rooms[c].currentQuestion.answers[sid] = <<>>
    /\ emitted = <<>>

\* ------------------------------------------------------------------- C4
C4_Step ==
  \A c \in Codes :
    (/\ Active(c) /\ SameRoom(c) /\ rooms'[c].currentQuestion.active
     /\ rooms'[c].currentQuestion.tok = rooms[c].currentQuestion.tok) =>
      \A sid \in DOMAIN rooms'[c].currentQuestion.answers
                   \ DOMAIN rooms[c].currentQuestion.answers :
        hasKey(rooms[c].players, sid)
          => getKey(rooms[c].players, sid).name
               \notin rooms[c].currentQuestion.names

\* C4: a player, known by display name, has at most one submission stored
\* per round: no step stores a submission from a player whose name already
\* has one in the round.
C4_OneSubmissionPerPlayer == [][C4_Step]_vars

\* ------------------------------------------------------------------- C5
C5_Step ==
  \A i \in Ended(emitted') :
    LET e == emitted'[i]
        c == e.to
        cq == rooms[c].currentQuestion
        corr == SetOf(cq.correctIndexes)
    IN /\ Len(e.results) = Len(rooms[c].players)
       /\ Len(rooms'[c].players) = Len(rooms[c].players)
       /\ \A k \in DOMAIN rooms[c].players :
            LET p == rooms[c].players[k]
                sub == IF p.id \in DOMAIN cq.answers
                       THEN SetOf(cq.answers[p.id]) ELSE {}
                r == e.results[k]
            IN /\ r.id = p.id /\ r.name = p.name
               /\ r.correct = (sub = corr)
               /\ r.awarded = IF sub = corr THEN cq.points ELSE 0
               /\ rooms'[c].players[k] = [p EXCEPT !.score = @ + r.awarded]

\* C5: at grading, every player in the room (under the connection that holds
\* the entry) is reported correct exactly when the set of the indexes stored
\* for it equals the set of correct indexes of the round; the award is the
\* round's points if correct and 0 otherwise, and the score grows by the
\* award.
C5_SetEquality == [][C5_Step]_vars

\* a round with the correct indexes 0,1 and 2 points was graded: one player
\* had them in the other order and is correct, another is not
C5_Witness ==
  \E i \in Ended(emitted) :
    /\ emitted[i].correctIndexes = <<Num(0), Num(1)>>
    /\ \E k \in DOMAIN emitted[i].results :
         emitted[i].results[k].correct /\ emitted[i].results[k].awarded = 2
    /\ \E k \in DOMAIN emitted[i].results : ~emitted[i].results[k].correct

\* ------------------------------------------------------------------- C6
C6_Step ==
  \A i \in Ended(emitted') :
    LET e == emitted'[i]
        cq == rooms[e.to].currentQuestion
    IN \A k \in DOMAIN e.results :
         (e.results[k].id \notin DOMAIN cq.answers
            \/ cq.answers[e.results[k].id] = <<>>)
           => ~e.results[k].correct /\ e.results[k].awarded = 0

\* C6: in no grading is a player without an answer, or with the empty list
\* as answer, reported correct or awarded points, whatever correctIndexes
\* the accepted createQuestion carried.
C6_EmptyNeverCorrect == [][C6_Step]_vars

\* ------------------------------------------------------------------- C7
\* the place of a name in a list of names, 0 if it is not there
posOf(jo, name) ==
  IF \E i \in DOMAIN jo : jo[i] = name
  THEN CHOOSE i \in DOMAIN jo : jo[i] = name ELSE 0

\* C7: every leaderboard broadcast lists the players by non-increasing
\* score, and players of equal score in the order of their first join.
C7_LeaderboardOrder ==
  \A i \in DOMAIN emitted :
    emitted[i].ev = "leaderboard" =>
      LET b == emitted[i].board
          jo == joinOrder[emitted[i].to]
      IN \A x, y \in DOMAIN b :
           x < y => /\ b[x].score >= b[y].score
                    /\ b[x].score = b[y].score
                         => posOf(jo, b[x].name) < posOf(jo, b[y].name)

\* ------------------------------------------------------------------- C8
\* the step grades the round k of the room under c
Grades(c, k) ==
  \E i \in Ended(emitted') : emitted'[i].to = c /\ emitted'[i].tok = k

\* the pending timer t is used up in the step: it fired, or was cleared
Gone(t) == t \in timers /\ t \notin timers'

C8_Step ==
  \A t \in timers, k \in 1..MaxRounds :
    (Gone(t) /\ Grades(t.code, k)) => k = t.tok

\* C8: a timer grades only the round it was scheduled for: in a step that
\* grades a round, every timer that fires or is cleared is the timer of that
\* round, so that no round is ended by the timer of another round.
C8_OwnRoundOnly == [][C8_Step]_vars

\* within one room the same holds: the timers scheduled in the room that is
\* under the code are that of its active round, and nothing else
C8_SameRoom ==
  \A t \in timers :
    (rooms[t.code].exists /\ t.tok >= rooms[t.code].born)
      => /\ rooms[t.code].currentQuestion.active
         /\ rooms[t.code].currentQuestion.tok = t.tok
         /\ rooms[t.code].timer = t

\* ------------------------------------------------------------------- C9
Refused(R, sid) ==
  /\ R.rooms = rooms /\ R.roomKeys = roomKeys /\ R.timers = timers
  /\ R.out = <<>>
  /\ Len(R.reply) = 1 /\ R.reply[1].ev = "errorMsg" /\ R.reply[1].to = sid

\* C9: for every room and every caller that is not its ownerId, a room
\* without owner included, kickPlayer, startGame, createQuestion and
\* endQuestionNow answer the caller with an error, leave the rooms and the
\* timers unchanged and broadcast nothing.
C9_OwnerOnly ==
  \A c \in Codes, sid \in SocketIds :
    (rooms[c].exists /\ rooms[c].owner # sid) =>
      /\ \A t \in SocketIds : Refused(kickPlayer(sid, c, t), sid)
      /\ Refused(startGame(sid, c), sid)
      /\ \A ci \in CorrectIn, d \in DurationIn, p \in PointsIn :
           Refused(createQuestion(sid, c, ci, d, p), sid)
      /\ Refused(endQuestionNow(sid, c), sid)

\* a room that has no owner yet holds two connected players, and the handler
\* that just ran (a refused owner operation) broadcast nothing
C9_Witness ==
  \E c \in Codes :
    /\ rooms[c].exists /\ rooms[c].owner = Null /\ ~rooms[c].started
    /\ Len(rooms[c].players) = 2
    /\ \A i \in DOMAIN rooms[c].players : rooms[c].players[i].id \in connected
    /\ emitted = <<>>

\* ------------------------------------------------------------------ C10
C10_Distinct ==
  \A c \in Codes :
    (rooms[c].exists /\ ~rooms[c].started) =>
      \A i, j \in DOMAIN rooms[c].players :
        rooms[c].players[i].name = rooms[c].players[j].name => i = j

C10_Refused ==
  \A c \in Codes, sid \in SocketIds, isOwner \in BOOLEAN :
    (rooms[c].exists /\ ~rooms[c].started) =>
      \A i \in DOMAIN rooms[c].players :
        joinRoom(sid, c, rooms[c].players[i].name, isOwner)
          = Fail(ackFail(sid, "Name already taken in this room"))

\* C10: in a room that has not started no two players have the same display
\* name, and a joinRoom under the name of one of its players is answered
\* "Name already taken in this room" and changes nothing, the owner included.
C10_UniqueNames == C10_Distinct /\ C10_Refused

\* a room that has not started holds two players, a third connection is
\* outside, and the handler that just ran (a refused join) broadcast nothing
C10_Witness ==
  \E c \in Codes :
    /\ rooms[c].exists /\ ~rooms[c].started
    /\ Len(rooms[c].players) = 2
    /\ \E sid \in connected : ~hasKey(rooms[c].players, sid)
    /\ emitted = <<>>

\* ------------------------------------------------------------------ C11
\* the display names of a list of players
nameSet(players) == {players[i].name : i \in DOMAIN players}

C11_Refused ==
  \A c \in Codes, sid \in SocketIds, name \in Names, isOwner \in BOOLEAN :
    (rooms[c].exists /\ rooms[c].started /\ ~nameTaken(rooms[c].players, name))
      => joinRoom(sid, c, name, isOwner)
           = Fail(ackFail(sid, "Game already started"))

\* C11: in a started room every joinRoom under a name that no player has,
\* with the owner claim or without it, is answered with the failure
\* "Game already started" and leaves the players and the owner as they are.
C11_NewNameRefused == C11_Refused

\* the part that holds: no step adds a display name to a started room
C11_NoNewName ==
  [][\A c \in Codes :
       (SameRoom(c) /\ rooms[c].started /\ rooms'[c].started)
         => nameSet(rooms'[c].players) \subseteq nameSet(rooms[c].players)]_vars

\* ------------------------------------------------------------------ C12
\* C12: a joinRoom into a started room under the name of one of its players
\* replaces exactly one entry: the entry under the old connection is gone,
\* the caller's connection holds an entry with the same name and score, and
\* every other entry is as it was, so that the number of players is kept.
C12_RemapOneEntry ==
  \A c \in Codes, sid \in SocketIds, name \in Names, isOwner \in BOOLEAN :
    (rooms[c].exists /\ rooms[c].started /\ nameTaken(rooms[c].players, name)) =>
      LET ps == rooms[c].players
          old == getKey(ps, findByName(ps, name))
          qs == joinRoom(sid, c, name, isOwner).rooms[c].players
      IN /\ Len(qs) = Len(ps)
         /\ hasKey(qs, sid) /\ getKey(qs, sid) = Player(sid, name, old.score)
         /\ old.id # sid => ~hasKey(qs, old.id)
         /\ \A i \in DOMAIN ps :
              ps[i].id # old.id
                => hasKey(qs, ps[i].id) /\ getKey(qs, ps[i].id) = ps[i]

\* the part that holds: the same for a caller that holds no entry of the
\* room under another name
C12_FromOutside ==
  \A c \in Codes, sid \in SocketIds, name \in Names, isOwner \in BOOLEAN :
    (/\ rooms[c].exists /\ rooms[c].started /\ nameTaken(rooms[c].players, name)
     /\ (hasKey(rooms[c].players, sid)
           => getKey(rooms[c].players, sid).name = name)) =>
      LET ps == rooms[c].players
          old == getKey(ps, findByName(ps, name))
          qs == joinRoom(sid, c, name, isOwner).rooms[c].players
      IN /\ Len(qs) = Len(ps)
         /\ hasKey(qs, sid) /\ getKey(qs, sid) = Player(sid, name, old.score)
         /\ old.id # sid => ~hasKey(qs, old.id)
         /\ \A i \in DOMAIN ps :
              ps[i].id # old.id
                => hasKey(qs, ps[i].id) /\ getKey(qs, ps[i].id) = ps[i]

\* ------------------------------------------------------------------ C13
\* C13: a joinRoom into a started room under the name of one of its players
\* changes the owner only if the caller claims ownership and the matched
\* player is the owner; under the name of any other player the owner stays,
\* with the owner claim or without it.
C13_OwnerRemapOnly ==
  \A c \in Codes, sid \in SocketIds, name \in Names, isOwner \in BOOLEAN :
    (rooms[c].exists /\ rooms[c].started /\ nameTaken(rooms[c].players, name)) =>
      LET matched == findByName(rooms[c].players, name)
          after == joinRoom(sid, c, name, isOwner).rooms[c].owner
      IN after # rooms[c].owner => (isOwner /\ matched = rooms[c].owner)

\* the part that holds: without the owner claim the owner stays, and with
\* it the owner is the caller
C13_ByClaim ==
  \A c \in Codes, sid \in SocketIds, name \in Names, isOwner \in BOOLEAN :
    (rooms[c].exists /\ rooms[c].started /\ nameTaken(rooms[c].players, name)) =>
      joinRoom(sid, c, name, isOwner).rooms[c].owner
        = IF isOwner THEN sid ELSE rooms[c].owner

\* ------------------------------------------------------------------ C14
\* C14: a joinRoom into a room that has not started makes the caller the
\* owner only when it carries the owner claim and the room has no owner; a
\* room that has an owner keeps it through every such join.
C14_FirstOwnerStays ==
  \A c \in Codes, sid \in SocketIds, name \in Names \cup {NoName},
     isOwner \in BOOLEAN :
    (rooms[c].exists /\ ~rooms[c].started) =>
      LET after == joinRoom(sid, c, name, isOwner).rooms[c].owner
      IN /\ after # rooms[c].owner => (isOwner /\ rooms[c].owner = Null)
         /\ after \in {rooms[c].owner, sid}

\* the part that holds: an accepted join with the owner claim makes the
\* caller the owner, and every other join leaves the owner as it is
C14_ByClaim ==
  \A c \in Codes, sid \in SocketIds, name \in Names \cup {NoName},
     isOwner \in BOOLEAN :
    (rooms[c].exists /\ ~rooms[c].started) =>
      joinRoom(sid, c, name, isOwner).rooms[c].owner
        = IF isOwner /\ name # NoName /\ ~nameTaken(rooms[c].players, name)
          THEN sid ELSE rooms[c].owner

\* ------------------------------------------------------------------ C15
\* C15: in every room of the registry the owner is unset or is the key of
\* one of the room's players.
C15_OwnerIsPlayer ==
  \A c \in Codes :
    rooms[c].exists
      => (rooms[c].owner = Null \/ hasKey(rooms[c].players, rooms[c].owner))

\* ------------------------------------------------------------------ C16
\* C16: kickPlayer from the owner with the owner's own connection as target
\* is answered with an error, leaves the players and the owner as they are
\* and broadcasts nothing.
C16_OwnerNotKicked ==
  \A c \in Codes, sid \in SocketIds :
    (rooms[c].exists /\ rooms[c].owner = sid)
      => Refused(kickPlayer(sid, c, sid), sid)

\* ------------------------------------------------------------------ C17
\* C17: startGame from the owner of a room that has started is a silent
\* no-op: it changes nothing, broadcasts nothing and answers nothing.
C17_StartOnce ==
  \A c \in Codes, sid \in SocketIds :
    (rooms[c].exists /\ rooms[c].started /\ rooms[c].owner = sid)
      => startGame(sid, c) = Same

\* the part that holds: started goes from false to true only; a code that
\* held a started room holds a room that has not started only after a create
\* handler put a new room under the code
C17_OneWay ==
  [][\A c \in Codes :
       (rooms[c].exists /\ rooms[c].started /\ rooms'[c].exists)
         => \/ rooms'[c].started
            \/ rooms'[c] \in {newRoom(Null, <<>>, nextTok)}
                 \cup {newRoom(s, <<Player(s, n, 0)>>, nextTok) :
                         s \in SocketIds, n \in Names}]_vars

\* ------------------------------------------------------------------ C18
C18_Numbers ==
  \A c \in Codes :
    rooms[c].exists =>
      \A i \in DOMAIN rooms[c].players : rooms[c].players[i].score \in Nat

C18_Step ==
  \A c \in Codes, n \in Names :
    (/\ SameRoom(c)
     /\ nameTaken(rooms[c].players, n) /\ nameTaken(rooms'[c].players, n))
      => scoreOf(rooms'[c], n) >= scoreOf(rooms[c], n)

\* C18: the score of every player is a non-negative integer, whatever the
\* owner sent as points of the rounds, and as long as a display name stays
\* in a room its score never goes down, through gradings and through
\* reconnections.
C18_ScoreMonotone == [][C18_Step]_vars /\ []C18_Numbers

\* the part that holds: a reconnection keeps the score of a name, or makes
\* it 0 when it was no number
C18_Remap ==
  [][\A c \in Codes, n \in Names :
       (/\ SameRoom(c) /\ Ended(emitted') = {}
        /\ nameTaken(rooms[c].players, n) /\ nameTaken(rooms'[c].players, n))
         => scoreOf(rooms'[c], n) \in {scoreOf(rooms[c], n), 0}]_vars

\* the part that holds: the same when the points sent are numbers, negative
\* ones included, or missing
C18_NumericPoints ==
  \A c \in Codes, sid \in SocketIds, ci \in CorrectIn, d \in DurationIn,
     p \in {Undef, NaN, Num(-1), Num(0), Num(2), Str(2), Str(0)} :
    (rooms[c].exists /\ rooms[c].owner = sid /\ ~Active(c))
      => createQuestion(sid, c, ci, d, p).rooms[c].currentQuestion.points \in Nat

\* ------------------------------------------------------------------ C19
\* the handler answers the caller "Room not found" and does nothing else
NotFound(R) ==
  /\ R.rooms = rooms /\ R.roomKeys = roomKeys /\ R.timers = timers
  /\ R.out = <<>>
  /\ Len(R.reply) = 1 /\ R.reply[1].message = "Room not found"

\* the same for the handlers that answer with errorMsg
NotFoundMsg(R) ==
  /\ R.rooms = rooms /\ R.roomKeys = roomKeys /\ R.timers = timers
  /\ R.out = <<>>
  /\ Len(R.reply) = 1 /\ R.reply[1].msg = "Room not found"

\* the room under c was closed by the step that led here
JustClosed(c) == ~rooms[c].exists /\ emitted = <<[ev |-> "roomClosed", to |-> c]>>

C19_Close ==
  \A c \in Codes, sid \in SocketIds :
    (/\ sid \in connected /\ sid \notin connected'
     /\ rooms[c].exists /\ rooms[c].owner = sid)
      => /\ ~rooms'[c].exists
         /\ emitted' = <<[ev |-> "roomClosed", to |-> c]>>
         /\ \A t \in timers' : t.code # c

C19_NotFound ==
  \A c \in Codes, sid \in SocketIds :
    JustClosed(c) =>
      /\ \A n \in Names, o \in BOOLEAN : NotFound(joinRoom(sid, c, n, o))
      /\ \A t \in SocketIds : NotFoundMsg(kickPlayer(sid, c, t))
      /\ NotFoundMsg(startGame(sid, c))
      /\ \A ci \in CorrectIn, d \in DurationIn, p \in PointsIn :
           NotFoundMsg(createQuestion(sid, c, ci, d, p))
      /\ \A sel \in SelectionsIn : NotFoundMsg(submitAnswer(sid, c, sel))
      /\ NotFoundMsg(endQuestionNow(sid, c))

\* C19: when the connection that is the owner of a room disconnects, the
\* room is removed from the registry in that step, roomClosed is broadcast
\* and no timer of the code stays pending; after that joinRoom, kickPlayer,
\* startGame, createQuestion, submitAnswer and endQuestionNow for the code
\* are answered "Room not found" and change nothing.
C19_OwnerGone == [][C19_Close]_vars /\ []C19_NotFound

\* the part that holds: the disconnect of an owner that is a player of its
\* room closes the room and clears the timer of its round, and after that
\* the four handlers that look the room up first answer "Room not found",
\* while submitAnswer and endQuestionNow are refused with their own message
C19_OwnerPlayerGone ==
  /\ [][\A c \in Codes, sid \in SocketIds :
          (/\ sid \in connected /\ sid \notin connected'
           /\ rooms[c].exists /\ rooms[c].owner = sid
           /\ hasKey(rooms[c].players, sid))
            => /\ ~rooms'[c].exists
               /\ emitted' = <<[ev |-> "roomClosed", to |-> c]>>
               /\ rooms[c].timer \notin timers']_vars
  /\ [](\A c \in Codes, sid \in SocketIds :
          JustClosed(c) =>
            /\ \A n \in Names, o \in BOOLEAN : NotFound(joinRoom(sid, c, n, o))
            /\ \A t \in SocketIds : NotFoundMsg(kickPlayer(sid, c, t))
            /\ NotFoundMsg(startGame(sid, c))
            /\ \A ci \in CorrectIn, d \in DurationIn, p \in PointsIn :
                 NotFoundMsg(createQuestion(sid, c, ci, d, p))
            /\ \A sel \in SelectionsIn :
                 submitAnswer(sid, c, sel) = Fail(errorMsg(sid, "No active question"))
            /\ endQuestionNow(sid, c) = Fail(errorMsg(sid, "Only owner can end")))

\* ------------------------------------------------------------------ C20
\* the owner sid of the room under c, a player of it, disconnects in the step
OwnerLeaves(c, sid) ==
  /\ sid \in connected /\ sid \notin connected'
  /\ rooms[c].exists /\ rooms[c].owner = sid
  /\ hasKey(rooms[c].players, sid)

\* in the state after the step, rejoinRoom from s2 under the name n gives
\* s2 the entry (n, score) and makes s2 the owner
Returns(c, s2, n, score) ==
  LET R == rejoinRoom(s2, c, n)' IN
  /\ R.rooms[c].exists
  /\ hasKey(R.rooms[c].players, s2)
  /\ getKey(R.rooms[c].players, s2) = Player(s2, n, score)
  /\ R.rooms[c].owner = s2

C20_Step ==
  \A c \in Codes, sid \in SocketIds, n \in Names, score \in 0..0 :
    (OwnerLeaves(c, sid) /\ getKey(rooms[c].players, sid) = Player(sid, n, score))
      => /\ rooms'[c].exists /\ rooms'[c].started = rooms[c].started
         /\ \A s2 \in SocketIds : s2 \in connected' => Returns(c, s2, n, score)

\* C20 (grace-window server): when the owner of a room disconnects, the room
\* stays in the registry, and a reconnection under the owner's name from
\* another connection, made before the timeout fires, puts the owner's
\* record with its score under the new connection and makes that connection
\* the owner, so that startGame from it is authorized.
C20_OwnerReturns == [][C20_Step]_vars

\* the part that holds: the owner's disconnect keeps the room, removes the
\* owner's record and starts the timeout; from then on rejoinRoom under the
\* owner's name cannot find the record unless another player has the name,
\* and no handler changes the owner of a room
C20_RecordGone ==
  [][\A c \in Codes, sid \in SocketIds :
       OwnerLeaves(c, sid)
         => /\ rooms'[c].exists
            /\ rooms'[c].players = deleteKey(rooms[c].players, sid)
            /\ rooms'[c].owner = sid
            /\ rooms'[c].ownerTimeout \in timers']_vars

\* ------------------------------------------------------------------ C21
\* the timeout of the room under c is pending: the owner left, the window
\* has not elapsed
Waiting(c) == rooms[c].exists /\ rooms[c].ownerTimeout \in timers

\* C21 (grace-window server): while the timeout started by the owner's
\* disconnect is pending, rejoinRoom under the name of any player other than
\* the owner leaves it pending: only the owner's return cancels it.
C21_OnlyOwnerCancels ==
  \A c \in Codes, sid \in SocketIds, n \in Names :
    (Waiting(c) /\ n # rooms[c].ownerTimeout.name)
      => rooms[c].ownerTimeout \in rejoinRoom(sid, c, n).timers

\* the part that holds: a timeout that is pending belongs to an owner that
\* is gone, and when it fires it broadcasts roomClosed and deletes the room
\* under its code
C21_FiringCloses ==
  \A t \in timers :
    /\ t.owner \notin connected
    /\ ownerTimeout(t).rooms[t.code] = NoRoom
    /\ ownerTimeout(t).out = <<[ev |-> "roomClosed", to |-> t.code]>>
    /\ t \notin ownerTimeout(t).timers

\* ------------------------------------------------------------------ C22
\* the codes of the rooms that hold an entry under the connection sid
roomsOf(sid) ==
  {c \in AllCodes : rooms[c].exists /\ hasKey(rooms[c].players, sid)}

C22_AtMostOne == \A sid \in SocketIds : Cardinality(roomsOf(sid)) <= 1

C22_GoneEverywhere == \A sid \in SocketIds \ connected : roomsOf(sid) = {}

\* C22: a connection holds a player entry in at most one room at a time,
\* and once its disconnect was handled no room of the registry holds an
\* entry under it.
C22_OneRoom == C22_AtMostOne /\ C22_GoneEverywhere

\* the part that holds: the disconnect removes the connection's entry from
\* the first room, in key order, that holds it, and from no other
C22_FirstOnly ==
  [][\A sid \in SocketIds :
       (sid \in connected /\ sid \notin connected' /\ roomsOf(sid) # {})
         => \E c \in roomsOf(sid) :
              /\ ~(rooms'[c].exists /\ hasKey(rooms'[c].players, sid))
              /\ \A d \in roomsOf(sid) \ {c} : rooms'[d] = rooms[d]]_vars

\* ------------------------------------------------------------------ C23
\* C23: a create handler never replaces a room: whatever code the generator
\* returns, every room of the registry is the same after POST /api/create
\* and after createRoomSocket as before.
C23_RoomKept ==
  \A c, code \in AllCodes, sid \in SocketIds, name \in Names :
    rooms[c].exists
      => /\ apiCreate(name, code).rooms[c] = rooms[c]
         /\ createRoomSocket(sid, name, code).rooms[c] = rooms[c]

\* the part that holds: a create handler touches only the room under the
\* code the generator returned, and never a pending timer
C23_OtherRoomsKept ==
  \A c, code \in AllCodes, sid \in SocketIds, name \in Names :
    /\ c # code => /\ apiCreate(name, code).rooms[c] = rooms[c]
                   /\ createRoomSocket(sid, name, code).rooms[c] = rooms[c]
    /\ apiCreate(name, code).timers = timers
    /\ createRoomSocket(sid, name, code).timers = timers

\* ------------------------------------------------------------------ C24
C24_Refused ==
  \A c \in Codes, sid \in SocketIds, sel \in SelectionsIn :
    (rooms[c].exists /\ ~Active(c))
      => submitAnswer(sid, c, sel) = Fail(errorMsg(sid, "No active question"))

C24_Cleared ==
  \A i \in Ended(emitted') :
    rooms'[emitted'[i].to].exists /\ ~rooms'[emitted'[i].to].currentQuestion.active

C24_Fresh ==
  \A c \in Codes :
    (/\ rooms'[c].exists /\ rooms'[c].currentQuestion.active
     /\ ~(Active(c) /\ rooms[c].currentQuestion.tok = rooms'[c].currentQuestion.tok))
      => rooms'[c].currentQuestion.answers = <<>>

\* C24: submitAnswer for a room with no active round, before the first
\* round or after a grading, is answered "No active question" and changes
\* nothing; the grading step leaves the room idle, so that this holds from
\* the broadcast of the results on, and a round that starts has no
\* submission stored.
C24_LateRefused == [][C24_Cleared /\ C24_Fresh]_vars /\ []C24_Refused

\* a round was graded with an answer counted, the room is idle, a player
\* that is not the owner is connected, and the handler that just ran (its
\* late submitAnswer) broadcast nothing
C24_Witness ==
  \E c \in Codes :
    /\ rooms[c].exists /\ ~Active(c) /\ rooms[c].timer = NoTimer
    /\ \E k \in gradedToks : k >= rooms[c].born
    /\ \E i \in DOMAIN rooms[c].players :
         /\ rooms[c].players[i].id \in connected
         /\ rooms[c].players[i].id # rooms[c].owner
         /\ rooms[c].players[i].score > 0
    /\ emitted = <<>>

\* ------------------------------------------------------------------ C25
\* the round k is over for the code c: its results were broadcast, or the
\* room it ran in is no longer in the registry
Over(c, k) ==
  k \in gradedToks \/ ~rooms[c].exists \/ rooms[c].born > k

\* C25: when the pending timers fire in the end, every round that is active
\* is followed by the broadcast of its results or by the removal of its
\* room, with no owner action needed.
C25_RoundEnds ==
  \A c \in Codes, k \in 1..MaxRounds :
    (Active(c) /\ rooms[c].currentQuestion.tok = k) ~> Over(c, k)

\* a round that held a right answer is over: its results were just
\* broadcast, the room is idle and no timer is pending
C25_Witness ==
  \E c \in Codes :
    /\ rooms[c].exists /\ ~Active(c) /\ timers = {}
    /\ rooms[c].owner \in connected
    /\ Ended(emitted) # {}
    /\ \E i \in Ended(emitted) :
         \E j \in DOMAIN emitted[i].results : emitted[i].results[j].correct

\* ------------------------------------------------------------------ C26
\* C26: the broadcasts of a grading are questionEnded, leaderboard and
\* playerList, in this order and for the same room, and nothing else: no
\* questionStarted comes between them; when they are sent the room is idle,
\* its timer handle is null and the timer of the graded round is no longer
\* pending.  A leaderboard is broadcast only in such a triple.
C26_GradingEvents ==
  /\ \A i \in Ended(emitted) :
       LET c == emitted[i].to IN
       /\ i = 1 /\ Len(emitted) = 3
       /\ emitted[2].ev = "leaderboard" /\ emitted[2].to = c
       /\ emitted[3] = playerList(c, rooms[c])
       /\ rooms[c].exists /\ ~Active(c) /\ rooms[c].timer = NoTimer
       /\ \A t \in timers : ~(t.code = c /\ t.tok = emitted[i].tok)
  /\ \A j \in DOMAIN emitted :
       emitted[j].ev = "leaderboard" => (j = 2 /\ emitted[1].ev = "questionEnded")

\* a grading of a room of two players was just broadcast, one player was
\* right and leads the board
C26_Witness ==
  \E i \in Ended(emitted) :
    /\ Len(emitted[i].results) = 2
    /\ Len(emitted) = 3
    /\ emitted[2].board[1].score > emitted[2].board[2].score

\* ------------------------------------------------------------------ C27
\* integer payloads for duration and points
DurationInts == {Num(-1), Num(0), Num(1), Num(3)}
PointsInts == {Num(-1), Num(0), Num(1), Num(2)}

\* the round the owner's createQuestion stores in the idle room under c
stored(c, d, p) ==
  createQuestion(rooms[c].owner, c, Arr(<<Num(1)>>), d, p).rooms[c].currentQuestion

\* C27: for integer duration and points the round that createQuestion
\* stores has duration = max(1, duration) and points = max(0, points); 0
\* points are stored as 0.
C27_Clamped ==
  \A c \in Codes, d \in DurationInts, p \in PointsInts :
    (rooms[c].exists /\ rooms[c].owner # Null /\ ~Active(c))
      => /\ stored(c, d, p).duration = Max(1, d.v)
         /\ stored(c, d, p).points = Max(0, p.v)

\* the part that holds: the same for integers other than 0, and 0 is taken
\* as missing: 10 seconds, 1 point
C27_ZeroIsMissing ==
  \A c \in Codes, d \in DurationInts, p \in PointsInts :
    (rooms[c].exists /\ rooms[c].owner # Null /\ ~Active(c))
      => /\ stored(c, d, p).duration = IF d.v = 0 THEN 10 ELSE Max(1, d.v)
         /\ stored(c, d, p).points = IF p.v = 0 THEN 1 ELSE Max(0, p.v)

\* ------------------------------------------------------------------ C28
\* C28: submitAnswer from a connection that holds no entry among the players
\* of the room stores no answer and sends no playerAnswered to the owner.
C28_PlayersOnly ==
  \A c \in Codes, sid \in SocketIds, sel \in SelectionsIn :
    (Active(c) /\ ~hasKey(rooms[c].players, sid))
      => /\ submitAnswer(sid, c, sel).rooms = rooms
         /\ submitAnswer(sid, c, sel).out = <<>>

\* the part that holds: the answer of a connection that is no player is
\* stored under its id, and grading reports the players only
C28_GradedPlayersOnly ==
  \A i \in Ended(emitted) :
    /\ Len(emitted[i].results) = Len(rooms[emitted[i].to].players)
    /\ \A k \in DOMAIN emitted[i].results :
         emitted[i].results[k].id = rooms[emitted[i].to].players[k].id

\* ------------------------------------------------------------------ C29
\* Every answer sent is the right one here (SelectionsOne against
\* CorrectFew), so a player graded on an answer it sent is correct.
C29_Step ==
  \A i \in Ended(emitted') :
    LET e == emitted'[i]
        cq == rooms[e.to].currentQuestion
    IN \A k \in DOMAIN e.results :
         e.results[k].name \in cq.names
           => e.results[k].correct /\ e.results[k].awarded = cq.points

\* C29: a submission survives a reconnection: a player whose answer was
\* stored in the round is graded on it, also when the player has taken a new
\* connection under the same name since; a right answer earns the points.
C29_AnswerFollowsPlayer == [][C29_Step]_vars

\* the part that holds: a player graded under the connection that sent its
\* answer is graded on that answer
C29_SameConnection ==
  [][\A i \in Ended(emitted') :
       LET e == emitted'[i]
           cq == rooms[e.to].currentQuestion
       IN \A k \in DOMAIN e.results :
            e.results[k].id \in DOMAIN cq.answers
              => e.results[k].correct /\ e.results[k].awarded = cq.points]_vars

\* ------------------------------------------------------------------ C30
\* what the questionEnded broadcasts of em for the room under c award to the
\* name n (names are reported once per grading)
awardOf(em, c, n) ==
  LET hits == {<<i, k>> \in (DOMAIN em) \X (1..3) :
                 /\ em[i].ev = "questionEnded" /\ em[i].to = c
                 /\ k \in DOMAIN em[i].results
                 /\ em[i].results[k].name = n}
  IN IF hits = {} THEN 0
     ELSE LET h == CHOOSE x \in hits : TRUE IN em[h[1]].results[h[2]].awarded

C30_Step ==
  \A c \in Codes, n \in Names :
    (SameRoom(c) /\ nameTaken(rooms'[c].players, n)) =>
      scoreOf(rooms'[c], n)
        = plus(IF nameTaken(rooms[c].players, n) THEN scoreOf(rooms[c], n) ELSE 0,
               awardOf(emitted', c, n))

\* C30: scores are conserved: a player enters a room with score 0, and in
\* every step the score kept under a display name grows by exactly what the
\* questionEnded broadcasts of the step award to that name, through
\* reconnections as well; so the score is the sum of the awards reported.
C30_ScoreIsSumOfAwards == [][C30_Step]_vars

\* the part that holds: the same as long as the scores are numbers
C30_NumbersConserved ==
  [][\A c \in Codes, n \in Names :
       (/\ SameRoom(c) /\ nameTaken(rooms'[c].players, n)
        /\ \A i \in DOMAIN rooms[c].players :
             rooms[c].players[i].score # NotANumber)
         => scoreOf(rooms'[c], n)
              = plus(IF nameTaken(rooms[c].players, n)
                     THEN scoreOf(rooms[c], n) ELSE 0,
                     awardOf(emitted', c, n))]_vars

\* ------------------------------------------------------------------ C31
\* the timer handle and the round of the room under c go together: the
\* handle is set exactly when a round is active, and a handle that is set is
\* a timeout that is still pending and was scheduled for that round
TimerWithRound(c) ==
  /\ rooms[c].timer.pending <=> rooms[c].currentQuestion.active
  /\ rooms[c].timer.pending =>
       /\ rooms[c].timer \in timers
       /\ rooms[c].timer.code = c
       /\ rooms[c].timer.tok = rooms[c].currentQuestion.tok

\* C31: between handler executions the timer handle of every room of the
\* registry is pending exactly when the room has an active round:
\* createQuestion sets both, grading (by a timer or by endQuestionNow) clears
\* both.  A timeout left behind by a room that was replaced under its code is
\* the handle of no room of the registry.
C31_TimerIffRound ==
  \A c \in AllCodes : rooms[c].exists => TimerWithRound(c)

\* a room that replaced another under its code runs a round with its own
\* pending timer, while the timeout of the replaced room is pending as well
C31_Witness ==
  \E c \in Codes :
    /\ Active(c)
    /\ rooms[c].timer \in timers
    /\ \E t \in timers : t.code = c /\ t.tok < rooms[c].born

\* grading has just cleared both the round and the handle
C31_Cleared ==
  \E c \in Codes :
    /\ rooms[c].exists /\ ~rooms[c].currentQuestion.active
    /\ ~rooms[c].timer.pending
    /\ Ended(emitted) # {}
    /\ timers = {}
====
